---- MODULE Spec2Model ----
(***************************************************************************)
(* Model of gmail_agent/email_filter.py: the tool-calling categorization   *)
(* loop (categorize_email), the fetch loop (filter_emails) and the         *)
(* interactive loop of main() that threads chat_history through calls.     *)
(*                                                                         *)
(* One coroutine runs at a time.  Its position is pc; every await of the   *)
(* source (context entry, initialize, list_tools, call_tool, context exit) *)
(* is one action whose outcome (success or a raised Exception) is chosen   *)
(* by the remote peer.  Only Exception subclasses are modelled as faults:  *)
(* the handlers of the source are all "except Exception".                  *)
(*                                                                         *)
(* email_filter.py as committed is rejected by the interpreter: the block  *)
(* of lines 55-70 is indented as if the session block had ended, while     *)
(* lines 72-130 continue that block (IndentationError at line 72).  The    *)
(* block reads mcp_tools, a name bound nowhere.  stale_tools_block covers  *)
(* both ways of resolving the file: TRUE, the block is executed after      *)
(* discovery and raises NameError into the handler of line 131; FALSE, the *)
(* block is absent and lines 72-130 run inside the session block.          *)
(*                                                                         *)
(* A context counts as closed once its __aexit__ has run, whether or not   *)
(* __aexit__ raised.                                                       *)
(***************************************************************************)
EXTENDS Integers, Sequences, FiniteSets, TLC

(***************************************************************************)
(* Bounds                                                                  *)
(***************************************************************************)
MaxCalls == 2

(***************************************************************************)
(* Python values.  Every value is a record tagged by its Python type so    *)
(* that values of different types can be compared.                         *)
(***************************************************************************)
None == [py |-> "None"]
Str(s) == [py |-> "str", s |-> s]
PyInt(n) == [py |-> "int", n |-> n]
Dict(d) == [py |-> "dict", d |-> d]
List(l) == [py |-> "list", l |-> l]

\* google.generativeai protobuf objects returned by the model backend
\* the proto map field holding the arguments of a function call
MapComposite(m) == [py |-> "MapComposite", m |-> m]
FunctionCall(name, args) == [py |-> "FunctionCall", name |-> name, args |-> args]
Part(function_call, text) == [py |-> "Part", function_call |-> function_call, text |-> text]
Response(candidates, text) == [py |-> "Response", candidates |-> candidates, text |-> text]

\* mcp result objects
TextContent(text) == [py |-> "TextContent", text |-> text]
ImageContent == [py |-> "ImageContent"]
\* a duck-typed content part exposing both attributes the fetch loop probes
OpaquePart(text, tool_code) == [py |-> "OpaquePart", text |-> text, tool_code |-> tool_code]
HasAttr(obj, attr) == attr \in DOMAIN obj
ToolResult(content) == [py |-> "CallToolResult", content |-> content]
\* a result object without a content attribute
ToolResultNoContent == [py |-> "CallToolResult"]
ToolDescriptor(name, schemaKeys) == [py |-> "Tool", name |-> name, inputSchema |-> schemaKeys]

\* a test written "is not None": the empty string and list pass it
Truthy_IsNotNone(v) == v.py # "None"

\* Python truthiness of the values tested by "if" in the source
Truthy(v) ==
    CASE v.py = "None" -> FALSE
      [] v.py = "str" -> v.s # ""
      [] v.py = "list" -> Len(v.l) > 0
      [] OTHER -> TRUE

\* json.dumps accepts None, str, int, dict and list (recursively) and raises
\* TypeError on any other object, such as a protobuf Part.
RECURSIVE JsonSerializable(_)
JsonSerializable(v) ==
    CASE v.py \in {"None", "str", "int"} -> TRUE
      [] v.py = "dict" -> \A k \in DOMAIN v.d : JsonSerializable(v.d[k])
      [] v.py = "list" -> \A i \in 1..Len(v.l) : JsonSerializable(v.l[i])
      [] OTHER -> FALSE

\* json.loads on the texts a tool returns in this model: the decoded value,
\* or a JSONDecodeError.
JsonCategoryText == "{\"category\": \"promotions\"}"
JsonScalarText == "\"spam\""
JsonListText == "[{\"id\": \"email_1\"}]"
NotJsonText == "This is not JSON"

JsonLoads(t) ==
    CASE t = JsonCategoryText -> [ok |-> TRUE, value |-> Dict([category |-> Str("promotions")])]
      [] t = JsonScalarText -> [ok |-> TRUE, value |-> Str("spam")]
      [] t = JsonListText -> [ok |-> TRUE, value |-> List(<<Dict([id |-> Str("email_1")])>>)]
      [] OTHER -> [ok |-> FALSE, value |-> None]

\* str.startswith
StartsWith(s, prefix) ==
    /\ Len(s) >= Len(prefix)
    /\ SubSeq(s, 1, Len(prefix)) = prefix

(***************************************************************************)
(* Inputs drawn by the environment                                         *)
(***************************************************************************)
EmailBodies == {"buy now", "hi bob"}

\* values of the module global MCP_SERVER_BASE_URL (line 21): the default
\* when MCP_SERVER_URL is unset, a configured URL, the empty string, a
\* non-URL value
DefaultServerUrl == "http://localhost:8000/mcp"

\* values of MCP_SERVER_URL in os.environ: unset, a URL, the empty string, a
\* non-URL value
EnvValues == {None, Str("https://mcp.example/mcp"), Str(""), Str("mcp-flight-search")}

\* os.getenv(name, default)
Getenv(value, default) == IF value.py = "None" THEN default ELSE value.s

ServerUrls == {Getenv(v, DefaultServerUrl) : v \in EnvValues}

NoArgs == [k \in {} |-> None]
PartCallA == Part(FunctionCall("categorize", MapComposite([email |-> Str("buy now")])), None)
PartCallB == Part(FunctionCall("failing_tool", MapComposite(NoArgs)), None)
PartText == Part(None, Str("direct_category"))
PartEmpty == Part(None, None)

\* a candidate is its content.parts; Response.text is the convenience field
Responses ==
    { Response(<< >>, None),
      Response(<< << >> >>, None),
      Response(<< <<PartCallA>> >>, None),
      Response(<< <<PartCallB>> >>, None),
      Response(<< <<PartText>> >>, Str("direct_category")),
      Response(<< <<PartEmpty>> >>, None),
      Response(<< <<PartEmpty>> >>, Str("")),
      Response(<< <<PartEmpty, PartText>> >>, Str("direct_category")),
      Response(<< <<PartText>>, <<PartCallA>> >>, Str("direct_category")) }

ToolResults ==
    { ToolResult(List(<<TextContent(Str(JsonCategoryText))>>)),
      ToolResult(List(<<TextContent(Str(JsonScalarText))>>)),
      ToolResult(List(<<TextContent(Str(NotJsonText))>>)),
      ToolResult(List(<<TextContent(Str(NotJsonText)), TextContent(Str(JsonCategoryText))>>)),
      ToolResult(List(<<ImageContent>>)),
      ToolResult(List(<< >>)),
      ToolResult(None),
      ToolResultNoContent }

\* results of gmail_fetch_emails
FetchResults ==
    { ToolResult(List(<<TextContent(Str(JsonListText))>>)),
      ToolResult(List(<<TextContent(Str(NotJsonText)), TextContent(Str(JsonCategoryText))>>)),
      ToolResult(List(<<TextContent(Str(JsonCategoryText)), ImageContent>>)),
      ToolResult(List(<<TextContent(Str(JsonCategoryText)), TextContent(Str(""))>>)),
      ToolResult(List(<<OpaquePart(None, Str("print(1)")), OpaquePart(None, None)>>)),
      ToolResult(List(<< >>)),
      ToolResult(None) }

ToolCatalogs ==
    { << >>,
      <<ToolDescriptor("categorize", {"type", "properties", "additionalProperties", "$schema"})>>,
      <<ToolDescriptor("gmail_fetch_emails", {"type", "properties"})>> }

\* histories a direct caller may hold before the first call
InitialHistories ==
    { << >>,
      << Dict([role |-> Str("user"), parts |-> List(<<Dict([text |-> Str("Hello model")])>>)]),
         Dict([role |-> Str("model"), parts |-> List(<<Dict([text |-> Str("Hello user")])>>)]) >> }

(***************************************************************************)
(* State                                                                   *)
(***************************************************************************)
VARIABLES
    MCP_SERVER_BASE_URL,  \* module global read once at import
    environ,              \* os.environ["MCP_SERVER_URL"], None when unset
    environ_at_import,    \* its value when the module was imported
    stale_tools_block,    \* whether the block of lines 55-70 is executed
    chat_history,         \* the history the caller holds between calls
    calls,                \* calls started so far
    fn,                   \* the entry point now running
    pc,                   \* position of the running coroutine
    email_body,
    current_history,
    updated_history,
    tools_for_gemini,
    function_call,
    client,               \* the client context constructed for this call
    transport,            \* state of the transport context of this call
    session,              \* state of the ClientSession context of this call
    pending,              \* return value or exception unwinding the contexts
    outcome,              \* what the last call delivered to its caller
    log,                  \* remote operations of this call, in order
    suspended             \* frame of a second coroutine that is not running

vars == <<suspended, MCP_SERVER_BASE_URL, environ, environ_at_import, stale_tools_block, chat_history, calls, fn, pc,
          email_body, current_history, updated_history, tools_for_gemini,
          function_call,
          client, transport, session, pending, outcome, log>>

NoPending == [kind |-> "none", value |-> None, history |-> << >>]
Return(value, history) == [kind |-> "return", value |-> value, history |-> history]
Raise(exc) == [kind |-> "raise", value |-> Str(exc), history |-> << >>]

NoOutcome == [kind |-> "none", value |-> None, history |-> << >>]
Returned(value, history) == [kind |-> "returned", value |-> value, history |-> history]
Raised(exc) == [kind |-> "raised", value |-> Str(exc), history |-> << >>]

Event(op, ok, arg, res) == [op |-> op, ok |-> ok, arg |-> arg, res |-> res]

\* the locals of the running coroutine, and those of one not yet started
Frame ==
    [fn |-> fn, pc |-> pc, email_body |-> email_body,
     current_history |-> current_history, updated_history |-> updated_history,
     tools_for_gemini |-> tools_for_gemini, function_call |-> function_call,
     client |-> client, transport |-> transport, session |-> session,
     pending |-> pending, outcome |-> outcome, log |-> log]
IdleFrame ==
    [fn |-> "none", pc |-> "idle", email_body |-> "",
     current_history |-> << >>, updated_history |-> << >>,
     tools_for_gemini |-> << >>, function_call |-> None,
     client |-> "none", transport |-> "unopened", session |-> "unopened",
     pending |-> NoPending, outcome |-> NoOutcome, log |-> << >>]

Init ==
    /\ suspended = IdleFrame
    /\ environ \in EnvValues
    /\ environ_at_import = environ
    /\ MCP_SERVER_BASE_URL = Getenv(environ, DefaultServerUrl)
    /\ stale_tools_block \in BOOLEAN
    /\ chat_history \in InitialHistories
    /\ calls = 0
    /\ fn = "none"
    /\ pc = "idle"
    /\ email_body = ""
    /\ current_history = << >>
    /\ updated_history = << >>
    /\ tools_for_gemini = << >>
    /\ function_call = None
    /\ client = "none"
    /\ transport = "unopened"
    /\ session = "unopened"
    /\ pending = NoPending
    /\ outcome = NoOutcome
    /\ log = << >>

(***************************************************************************)
(* Helpers of categorize_email                                             *)
(***************************************************************************)
\* line 29
UserPromptPart(body) ==
    Dict([role |-> Str("user"),
          parts |-> List(<<Dict([text |-> Str("Categorize the following email: " \o body)])>>)])

\* the model Turn holding a printed form of the part instead of the part
ModelTurn_Stringified(part) ==
    Dict([role |-> Str("model"), parts |-> List(<<Str("<" \o part.py \o ">")>>)])

\* the model Turn of lines 99, 103 and 134
ModelTurn(part) == Dict([role |-> Str("model"), parts |-> List(<<part>>)])
TextPart(s) == Dict([text |-> Str(s)])

\* lines 34-45 and 143-153: which client context is constructed
SelectClient(url) ==
    IF url # "" /\ StartsWith(url, "http") THEN "http_client" ELSE "stdio_client"

\* lines 72-87: one declaration per tool, schema without the two metadata keys
ToolsForGemini(tools) ==
    [i \in 1..Len(tools) |->
        [name |-> tools[i].name,
         parameters |-> tools[i].inputSchema \ {"additionalProperties", "$schema"}]]

\* the handler of line 122 with the tool name left out of the sentinel
ToolFailure_NoName(fc) == Str("error_calling_mcp_tool_")

\* lines 122-124: the handler around the invocation and the decoding
ToolFailure(fc) == Str("error_calling_mcp_tool_" \o fc.name)

\* the decoding with JSONDecodeError left to the handler of line 122
DecodeToolResult_NoJsonHandler(tool_result, fc) ==
    IF ~HasAttr(tool_result, "content") THEN ToolFailure(fc) ELSE
    LET content == tool_result.content IN
    IF content.py # "list" THEN ToolFailure(fc)
    ELSE IF Len(content.l) = 0 THEN Str("error_mcp_result_structure")
    ELSE IF ~HasAttr(content.l[1], "text") THEN Str("error_mcp_result_structure")
    ELSE IF content.l[1].text.py # "str" THEN ToolFailure(fc)
    ELSE IF JsonLoads(content.l[1].text.s).ok
    THEN JsonLoads(content.l[1].text.s).value
    ELSE ToolFailure(fc)

\* lines 113-124: the category decoded from a tool result, or the sentinel of
\* the handler that catches the fault
DecodeToolResult(tool_result, fc) ==
    IF ~HasAttr(tool_result, "content") \* line 112 raises AttributeError, caught at line 122
    THEN ToolFailure(fc) ELSE
    LET content == tool_result.content IN
    IF content.py # "list" \* None[0] raises TypeError, caught at line 122
    THEN ToolFailure(fc)
    ELSE IF Len(content.l) = 0 \* IndexError
    THEN Str("error_mcp_result_structure")
    ELSE IF ~HasAttr(content.l[1], "text") \* AttributeError
    THEN Str("error_mcp_result_structure")
    ELSE IF content.l[1].text.py # "str" \* json.loads(None) raises TypeError
    THEN ToolFailure(fc)
    ELSE IF JsonLoads(content.l[1].text.s).ok
    THEN JsonLoads(content.l[1].text.s).value
    ELSE Str("error_mcp_json_decode")

\* the filter handler returning the empty accumulator instead of a marker
SessionFailure_FilterEmpty(f, history, body) ==
    IF f = "categorize_email"
    THEN Returned(Str("error_mcp_session_categorization"),
                  history \o <<UserPromptPart(body), ModelTurn(TextPart("Error in MCP session."))>>)
    ELSE Returned(List(<< >>), << >>)

\* the handler with the user Turn forgotten on the error path
SessionFailure_NoUserTurn(f, history, body) ==
    IF f = "categorize_email"
    THEN Returned(Str("error_mcp_session_categorization"),
                  history \o <<ModelTurn(TextPart("Error in MCP session."))>>)
    ELSE Returned(List(<<Dict([error |-> Str("MCP client session failed for filtering")])>>), << >>)

\* the handler of line 96 with the user Turn forgotten
GeminiFailure_NoUserTurn(history, body) ==
    Return(Str("unknown_category_error_gemini_api"),
           history \o <<ModelTurn(TextPart("Error calling Gemini."))>>)

\* lines 96-100: the handler around the backend request
GeminiFailure(history, body) ==
    Return(Str("unknown_category_error_gemini_api"),
           history \o <<UserPromptPart(body), ModelTurn(TextPart("Error calling Gemini."))>>)

\* the text taken from the inspected part instead of from the response
ReplyWithoutCall_PartText(response, history) ==
    IF Truthy(response.candidates[1][1].text)
    THEN Return(response.candidates[1][1].text, history)
    ELSE Return(Str("unknown_no_function_call_or_text"), history)

\* lines 125-130: the reply carries no function call
ReplyWithoutCall(response, history) ==
    IF Truthy(response.text)
    THEN Return(response.text, history)
    ELSE Return(Str("unknown_no_function_call_or_text"), history)

\* dict(function_call.args) with the arguments lost
DictOf_Empty(args) == Dict([k \in {} |-> None])

\* line 110: dict(function_call.args) copies the proto map into a dict
DictOf(args) == Dict(args.m)

\* lines 131-135 and 196-198: the handler around the two client contexts
SessionFailure(f, history, body) ==
    IF f = "categorize_email"
    THEN Returned(Str("error_mcp_session_categorization"),
                  history \o <<UserPromptPart(body), ModelTurn(TextPart("Error in MCP session."))>>)
    ELSE Returned(List(<<Dict([error |-> Str("MCP client session failed for filtering")])>>), << >>)

\* what leaves the try statement once both contexts have been exited
Deliver(p, f, history, body) ==
    IF p.kind = "raise" THEN SessionFailure(f, history, body)
    ELSE Returned(p.value, p.history)

(***************************************************************************)
(* Helpers of filter_emails                                                *)
(***************************************************************************)
gmail_tool_name == "gmail_fetch_emails"
dummy_args == Dict([query |-> Str("unread"), max_results |-> PyInt(10)])

ToolNames(tools) == {tools[i].name : i \in 1..Len(tools)}

\* the missing capability reported by the empty accumulator
ToolNotFound_ReturnsFetched == List(<< >>)

\* lines 193-195: the capability is not advertised
ToolNotFound == List(<<Dict([error |-> Str("Tool " \o gmail_tool_name \o " not found")])>>)

\* the failed invocation reported by the empty accumulator
FetchFailure_ReturnsFetched == List(<< >>)

\* lines 190-192: the handler around the invocation and the part loop
FetchFailure == List(<<Dict([error |-> Str("Failed to call " \o gmail_tool_name)])>>)

\* str(part)
StrOf(part) == Str("<" \o part.py \o ">")

\* lines 173-186: the loop over result.content; ok is FALSE when a part raises
RECURSIVE FetchParts(_, _, _)
FetchParts(parts, i, fetched_data) ==
    IF i > Len(parts) THEN [ok |-> TRUE, data |-> fetched_data]
    ELSE LET part == parts[i] IN
         IF ~HasAttr(part, "text") THEN [ok |-> FALSE, data |-> fetched_data]
         ELSE IF Truthy(part.text)
         THEN FetchParts(parts, i + 1,
                Append(fetched_data,
                       IF JsonLoads(part.text.s).ok THEN JsonLoads(part.text.s).value
                       ELSE Dict([raw_text |-> part.text, error |-> Str("not_json")])))
         ELSE IF ~HasAttr(part, "tool_code") THEN [ok |-> FALSE, data |-> fetched_data]
         ELSE IF Truthy(part.tool_code)
         THEN FetchParts(parts, i + 1, Append(fetched_data, Dict([tool_code |-> part.tool_code])))
         ELSE FetchParts(parts, i + 1, Append(fetched_data, Dict([unknown_part |-> StrOf(part)])))

\* a result without content answered by None instead of the accumulator
FetchedData_NoneWithoutContent(result) ==
    IF ~Truthy(result.content) THEN None
    ELSE IF FetchParts(result.content.l, 1, << >>).ok
    THEN List(FetchParts(result.content.l, 1, << >>).data)
    ELSE FetchFailure

\* lines 172-192: the list returned after the tool answered
FetchedData(result) ==
    IF ~Truthy(result.content) THEN List(<< >>)
    ELSE IF FetchParts(result.content.l, 1, << >>).ok
    THEN List(FetchParts(result.content.l, 1, << >>).data)
    ELSE FetchFailure

(***************************************************************************)
(* Actions                                                                 *)
(***************************************************************************)
Log(op, ok, arg, res) == log' = Append(log, Event(op, ok, arg, res))

\* the locals and contexts of a fresh call
FreshCall ==
    /\ calls' = calls + 1
    /\ updated_history' = << >>
    /\ tools_for_gemini' = << >>
    /\ function_call' = None
    /\ transport' = "unopened"
    /\ session' = "unopened"
    /\ pending' = NoPending
    /\ log' = << >>

\* the entry with current_history an alias of the caller's list and the user
\* Turn appended to it in place
CategorizeEmail_AppendsInPlace(body) ==
    /\ pc = "idle"
    /\ calls < MaxCalls
    /\ FreshCall
    /\ fn' = "categorize_email"
    /\ email_body' = body
    /\ current_history' = chat_history
    /\ chat_history' = chat_history \o <<UserPromptPart(body)>>
    /\ IF JsonSerializable(List(chat_history \o <<UserPromptPart(body)>>))
       THEN /\ client' = SelectClient(MCP_SERVER_BASE_URL)
            /\ outcome' = NoOutcome
            /\ pc' = "enter_transport"
       ELSE /\ client' = "none"
            /\ outcome' = Raised("TypeError")
            /\ pc' = "returned"
    /\ UNCHANGED <<suspended, MCP_SERVER_BASE_URL, environ, environ_at_import, stale_tools_block>>

\* categorize_email lines 23-47, called as main does (line 256) with the
\* history the caller holds.  json.dumps of line 31 is outside the try.
CategorizeEmail(body) ==
    /\ pc = "idle"
    /\ calls < MaxCalls
    /\ FreshCall
    /\ fn' = "categorize_email"
    /\ email_body' = body
    /\ current_history' = chat_history
    /\ IF JsonSerializable(List(chat_history \o <<UserPromptPart(body)>>))
       THEN /\ client' = SelectClient(MCP_SERVER_BASE_URL)
            /\ outcome' = NoOutcome
            /\ pc' = "enter_transport"
       ELSE /\ client' = "none"
            /\ outcome' = Raised("TypeError")
            /\ pc' = "returned"
    /\ UNCHANGED <<suspended, MCP_SERVER_BASE_URL, environ, environ_at_import, stale_tools_block, chat_history>>

\* filter_emails lines 138-155
FilterEmails ==
    /\ pc = "idle"
    /\ calls < MaxCalls
    /\ FreshCall
    /\ fn' = "filter_emails"
    /\ email_body' = ""
    /\ current_history' = << >>
    /\ client' = SelectClient(MCP_SERVER_BASE_URL)
    /\ outcome' = NoOutcome
    /\ pc' = "enter_transport"
    /\ UNCHANGED <<suspended, MCP_SERVER_BASE_URL, environ, environ_at_import, stale_tools_block, chat_history>>

\* lines 48 and 156: async with mcp_client_context
EnterTransport ==
    /\ pc = "enter_transport"
    /\ \/ /\ transport' = "open"
          /\ Log(client, TRUE, None, None)
          /\ pc' = "enter_session"
          /\ UNCHANGED outcome
       \/ /\ transport' = "unopened"
          /\ Log(client, FALSE, None, None)
          /\ outcome' = SessionFailure(fn, current_history, email_body)
          /\ pc' = "returned"
    /\ UNCHANGED <<suspended, MCP_SERVER_BASE_URL, environ, environ_at_import, stale_tools_block, chat_history, calls, fn,
                   email_body, current_history, updated_history, tools_for_gemini,
                   function_call, client, session, pending>>

\* lines 49 and 157: async with ClientSession(read, write)
EnterSession ==
    /\ pc = "enter_session"
    /\ \/ /\ session' = "open"
          /\ Log("ClientSession", TRUE, None, None)
          /\ pc' = "initialize"
          /\ UNCHANGED pending
       \/ /\ session' = "unopened"
          /\ Log("ClientSession", FALSE, None, None)
          /\ pending' = Raise("Exception")
          /\ pc' = "exit_transport"
    /\ UNCHANGED <<suspended, MCP_SERVER_BASE_URL, environ, environ_at_import, stale_tools_block, chat_history, calls, fn,
                   email_body, current_history, updated_history, tools_for_gemini,
                   function_call, client, transport, outcome>>

\* a handshake whose failure is swallowed: discovery is attempted anyway
Initialize_FailureIgnored ==
    /\ pc = "initialize"
    /\ \/ Log("initialize", TRUE, None, None)
       \/ Log("initialize", FALSE, None, None)
    /\ pc' = "list_tools"
    /\ UNCHANGED <<suspended, MCP_SERVER_BASE_URL, environ, environ_at_import, stale_tools_block, chat_history, calls, fn,
                   email_body, current_history, updated_history, tools_for_gemini,
                   function_call, client, transport, session, pending, outcome>>

\* lines 50 and 158: await session.initialize()
Initialize ==
    /\ pc = "initialize"
    /\ \/ /\ Log("initialize", TRUE, None, None)
          /\ pc' = "list_tools"
          /\ UNCHANGED pending
       \/ /\ Log("initialize", FALSE, None, None)
          /\ pending' = Raise("Exception")
          /\ pc' = "exit_session"
    /\ UNCHANGED <<suspended, MCP_SERVER_BASE_URL, environ, environ_at_import, stale_tools_block, chat_history, calls, fn,
                   email_body, current_history, updated_history, tools_for_gemini,
                   function_call, client, transport, session, outcome>>

\* categorize_email lines 53-87: discovery, then the tool declarations.  The
\* block of lines 55-70 iterates over mcp_tools, a name bound nowhere: where
\* it is executed it raises NameError.
ListToolsCategorize ==
    /\ pc = "list_tools"
    /\ fn = "categorize_email"
    /\ \/ \E tools \in ToolCatalogs :
            /\ Log("list_tools", TRUE, None, List(tools))
            /\ IF stale_tools_block
               THEN /\ pending' = Raise("NameError")
                    /\ pc' = "exit_session"
                    /\ UNCHANGED tools_for_gemini
               ELSE /\ tools_for_gemini' = ToolsForGemini(tools)
                    /\ pc' = "generate_content"
                    /\ UNCHANGED pending
       \/ /\ Log("list_tools", FALSE, None, None)
          /\ pending' = Raise("Exception")
          /\ pc' = "exit_session"
          /\ UNCHANGED tools_for_gemini
    /\ UNCHANGED <<suspended, MCP_SERVER_BASE_URL, environ, environ_at_import, stale_tools_block, chat_history, calls, fn,
                   email_body, current_history, updated_history,
                   function_call, client, transport, session, outcome>>

\* categorize_email lines 89-107 and 125-130: the backend request and the
\* inspection of the first part of the first candidate
GenerateContent ==
    /\ pc = "generate_content"
    /\ LET contents_payload == current_history \o <<UserPromptPart(email_body)>>
           request == [contents |-> contents_payload, tools |-> tools_for_gemini]
       IN
       \/ /\ Log("generate_content", FALSE, request, None)
          /\ pending' = GeminiFailure(current_history, email_body)
          /\ pc' = "exit_session"
          /\ UNCHANGED <<updated_history, function_call>>
       \/ \E response \in Responses :
            /\ Log("generate_content", TRUE, request, response)
            /\ IF Len(response.candidates) = 0 \/ Len(response.candidates[1]) = 0
               THEN \* line 102 raises IndexError outside the inner try
                    /\ pending' = Raise("IndexError")
                    /\ pc' = "exit_session"
                    /\ UNCHANGED <<updated_history, function_call>>
               ELSE LET model_response_part == response.candidates[1][1]
                        history == current_history \o <<UserPromptPart(email_body),
                                                        ModelTurn(model_response_part)>>
                    IN
                    /\ updated_history' = history
                    /\ IF Truthy(model_response_part.function_call)
                       THEN /\ function_call' = model_response_part.function_call
                            /\ pc' = "call_tool"
                            /\ UNCHANGED pending
                       ELSE /\ pending' = ReplyWithoutCall(response, history)
                            /\ pc' = "exit_session"
                            /\ UNCHANGED function_call
    /\ UNCHANGED <<suspended, MCP_SERVER_BASE_URL, environ, environ_at_import, stale_tools_block, chat_history, calls, fn,
                   email_body, current_history, tools_for_gemini,
                   client, transport, session, outcome>>

\* the invocation attempted a second time when the first attempt raises
CallToolCategorize_Retries ==
    /\ pc = "call_tool"
    /\ fn = "categorize_email"
    /\ LET invocation == [name |-> function_call.name, arguments |-> DictOf(function_call.args)] IN
       \/ /\ Log("call_tool", FALSE, invocation, None)
          /\ IF \E i \in 1..Len(log) : log[i].op = "call_tool"
             THEN /\ pending' = Return(ToolFailure(function_call), updated_history)
                  /\ pc' = "exit_session"
             ELSE /\ pc' = "call_tool"
                  /\ UNCHANGED pending
       \/ \E tool_result \in ToolResults :
            /\ Log("call_tool", TRUE, invocation, tool_result)
            /\ pending' = Return(DecodeToolResult(tool_result, function_call), updated_history)
            /\ pc' = "exit_session"
    /\ UNCHANGED <<suspended, MCP_SERVER_BASE_URL, environ, environ_at_import, stale_tools_block, chat_history, calls, fn,
                   email_body, current_history, updated_history, tools_for_gemini,
                   function_call, client, transport, session, outcome>>

\* categorize_email lines 108-124: await session.call_tool and the decoding
CallToolCategorize ==
    /\ pc = "call_tool"
    /\ fn = "categorize_email"
    /\ LET invocation == [name |-> function_call.name, arguments |-> DictOf(function_call.args)] IN
       \/ /\ Log("call_tool", FALSE, invocation, None)
          /\ pending' = Return(ToolFailure(function_call), updated_history)
       \/ \E tool_result \in ToolResults :
            /\ Log("call_tool", TRUE, invocation, tool_result)
            /\ pending' = Return(DecodeToolResult(tool_result, function_call), updated_history)
    /\ pc' = "exit_session"
    /\ UNCHANGED <<suspended, MCP_SERVER_BASE_URL, environ, environ_at_import, stale_tools_block, chat_history, calls, fn,
                   email_body, current_history, updated_history, tools_for_gemini,
                   function_call, client, transport, session, outcome>>

\* filter_emails lines 161-166 and 193-195: discovery and the capability test
ListToolsFilter ==
    /\ pc = "list_tools"
    /\ fn = "filter_emails"
    /\ \/ \E tools \in ToolCatalogs :
            /\ Log("list_tools", TRUE, None, List(tools))
            /\ IF gmail_tool_name \in ToolNames(tools)
               THEN /\ pc' = "call_tool"
                    /\ UNCHANGED pending
               ELSE /\ pending' = Return(ToolNotFound, << >>)
                    /\ pc' = "exit_session"
       \/ /\ Log("list_tools", FALSE, None, None)
          /\ pending' = Raise("Exception")
          /\ pc' = "exit_session"
    /\ UNCHANGED <<suspended, MCP_SERVER_BASE_URL, environ, environ_at_import, stale_tools_block, chat_history, calls, fn,
                   email_body, current_history, updated_history, tools_for_gemini,
                   function_call, client, transport, session, outcome>>

\* filter_emails lines 167-192: the invocation and the loop over its parts
CallToolFilter ==
    /\ pc = "call_tool"
    /\ fn = "filter_emails"
    /\ LET invocation == [name |-> gmail_tool_name, arguments |-> dummy_args] IN
       \/ /\ Log("call_tool", FALSE, invocation, None)
          /\ pending' = Return(FetchFailure, << >>)
       \/ \E result \in FetchResults :
            /\ Log("call_tool", TRUE, invocation, result)
            /\ pending' = Return(FetchedData(result), << >>)
    /\ pc' = "exit_session"
    /\ UNCHANGED <<suspended, MCP_SERVER_BASE_URL, environ, environ_at_import, stale_tools_block, chat_history, calls, fn,
                   email_body, current_history, updated_history, tools_for_gemini,
                   function_call, client, transport, session, outcome>>

\* a session closed by a call placed after the block instead of by the
\* context manager: an exception on its way out skips it
ExitSession_OnlyOnReturn ==
    /\ pc = "exit_session"
    /\ session' = IF pending.kind = "raise" THEN session ELSE "closed"
    /\ \/ /\ Log("ClientSession.exit", TRUE, None, None)
          /\ UNCHANGED pending
       \/ /\ Log("ClientSession.exit", FALSE, None, None)
          /\ pending' = Raise("Exception")
    /\ pc' = "exit_transport"
    /\ UNCHANGED <<suspended, MCP_SERVER_BASE_URL, environ, environ_at_import, stale_tools_block, chat_history, calls, fn,
                   email_body, current_history, updated_history, tools_for_gemini,
                   function_call, client, transport, outcome>>

\* ClientSession.__aexit__, run on every way out of the block of line 49/157;
\* an exception it raises replaces the pending return value
ExitSession ==
    /\ pc = "exit_session"
    /\ session' = "closed"
    /\ \/ /\ Log("ClientSession.exit", TRUE, None, None)
          /\ UNCHANGED pending
       \/ /\ Log("ClientSession.exit", FALSE, None, None)
          /\ pending' = Raise("Exception")
    /\ pc' = "exit_transport"
    /\ UNCHANGED <<suspended, MCP_SERVER_BASE_URL, environ, environ_at_import, stale_tools_block, chat_history, calls, fn,
                   email_body, current_history, updated_history, tools_for_gemini,
                   function_call, client, transport, outcome>>

\* a client context whose exit never completes once the block was left by an
\* exception
ExitTransport_HangsOnRaise ==
    /\ pc = "exit_transport"
    /\ pending.kind # "raise"
    /\ transport' = "closed"
    /\ \/ /\ Log(client \o ".exit", TRUE, None, None)
          /\ outcome' = Deliver(pending, fn, current_history, email_body)
       \/ /\ Log(client \o ".exit", FALSE, None, None)
          /\ outcome' = SessionFailure(fn, current_history, email_body)
    /\ pending' = NoPending
    /\ pc' = "returned"
    /\ UNCHANGED <<suspended, MCP_SERVER_BASE_URL, environ, environ_at_import, stale_tools_block, chat_history, calls, fn,
                   email_body, current_history, updated_history, tools_for_gemini,
                   function_call, client, session>>

\* the client context's __aexit__ (line 48/156), then the way out of the try:
\* the pending return value, or the handler of line 131/196
ExitTransport ==
    /\ pc = "exit_transport"
    /\ transport' = "closed"
    /\ \/ /\ Log(client \o ".exit", TRUE, None, None)
          /\ outcome' = Deliver(pending, fn, current_history, email_body)
       \/ /\ Log(client \o ".exit", FALSE, None, None)
          /\ outcome' = SessionFailure(fn, current_history, email_body)
    /\ pending' = NoPending
    /\ pc' = "returned"
    /\ UNCHANGED <<suspended, MCP_SERVER_BASE_URL, environ, environ_at_import, stale_tools_block, chat_history, calls, fn,
                   email_body, current_history, updated_history, tools_for_gemini,
                   function_call, client, session>>

\* the environment is changed between two calls, as the tests do with
\* patch.dict(os.environ, ...); the module is not imported again
PatchEnviron(value) ==
    /\ pc = "idle"
    /\ value # environ
    /\ environ' = value
    /\ UNCHANGED <<suspended, MCP_SERVER_BASE_URL, environ_at_import, stale_tools_block, chat_history,
                   calls, fn, pc, email_body, current_history, updated_history,
                   tools_for_gemini, function_call, client, transport, session,
                   pending, outcome, log>>

\* the loop with line 265 enabled: after a raised exception the user part is
\* appended to chat_history without a model part
MainLoop_AppendsUserPartOnError ==
    /\ pc = "returned"
    /\ chat_history' = IF fn = "categorize_email" /\ outcome.kind = "returned"
                       THEN outcome.history
                       ELSE IF fn = "categorize_email"
                       THEN Append(chat_history, Dict([role |-> Str("user"),
                                                       parts |-> List(<<TextPart(email_body)>>)]))
                       ELSE chat_history
    /\ fn' = "none"
    /\ pc' = "idle"
    /\ UNCHANGED <<suspended, MCP_SERVER_BASE_URL, environ, environ_at_import, stale_tools_block, calls,
                   email_body, current_history, updated_history, tools_for_gemini,
                   function_call, client, transport, session, pending, outcome, log>>

\* main lines 256-259 (a returned pair replaces chat_history), lines 260-263
\* (a raised exception is reported and chat_history kept), lines 218-219
MainLoop ==
    /\ pc = "returned"
    /\ chat_history' = IF fn = "categorize_email" /\ outcome.kind = "returned"
                       THEN outcome.history ELSE chat_history
    /\ fn' = "none"
    /\ pc' = "idle"
    /\ UNCHANGED <<suspended, MCP_SERVER_BASE_URL, environ, environ_at_import, stale_tools_block, calls,
                   email_body, current_history, updated_history, tools_for_gemini,
                   function_call, client, transport, session, pending, outcome, log>>

Next ==
    \/ \E body \in EmailBodies : CategorizeEmail(body)
    \/ FilterEmails
    \/ EnterTransport
    \/ EnterSession
    \/ Initialize
    \/ ListToolsCategorize
    \/ GenerateContent
    \/ CallToolCategorize
    \/ ListToolsFilter
    \/ CallToolFilter
    \/ ExitSession
    \/ ExitTransport
    \/ MainLoop
    \/ \E value \in EnvValues : PatchEnviron(value)

Spec == Init /\ [][Next]_vars

(***************************************************************************)
(* The same program with an environment that is not changed after import   *)
(* and remote peers that answer every await: each operation the running    *)
(* coroutine waits for eventually completes, with success or with failure. *)
(***************************************************************************)
RemoteStep ==
    \/ EnterTransport
    \/ EnterSession
    \/ Initialize
    \/ ListToolsCategorize
    \/ GenerateContent
    \/ CallToolCategorize
    \/ ListToolsFilter
    \/ CallToolFilter
    \/ ExitSession
    \/ ExitTransport

LiveNext ==
    \/ \E body \in EmailBodies : CategorizeEmail(body)
    \/ FilterEmails
    \/ RemoteStep
    \/ MainLoop

LiveSpec == Init /\ [][LiveNext]_vars /\ WF_vars(RemoteStep)

(***************************************************************************)
(* Two categorize_email coroutines on one event loop, as started by        *)
(* asyncio.gather or one after the other by a caller that passes the same  *)
(* history to both.  Every position of a coroutine is an await: the loop   *)
(* may resume the other coroutine there.  Locals and the two contexts      *)
(* belong to the coroutine; the module globals and the caller's list are   *)
(* shared.                                                                 *)
(***************************************************************************)
\* a loop on which the ClientSession and the transport are module globals
\* shared by the coroutines
Switch_SharedSession ==
    /\ pc # "idle"
    /\ suspended.pc # "returned"
    /\ suspended' = Frame
    /\ fn' = suspended.fn
    /\ pc' = suspended.pc
    /\ email_body' = suspended.email_body
    /\ current_history' = suspended.current_history
    /\ updated_history' = suspended.updated_history
    /\ tools_for_gemini' = suspended.tools_for_gemini
    /\ function_call' = suspended.function_call
    /\ client' = suspended.client
    /\ pending' = suspended.pending
    /\ outcome' = suspended.outcome
    /\ log' = suspended.log
    /\ UNCHANGED <<MCP_SERVER_BASE_URL, environ, environ_at_import, stale_tools_block,
                   chat_history, calls, transport, session>>

\* the event loop resumes the other coroutine while this one waits at an
\* await (lines 48-50, 53, 109) or has returned
Switch ==
    /\ pc # "idle"
    /\ suspended.pc # "returned"
    /\ suspended' = Frame
    /\ fn' = suspended.fn
    /\ pc' = suspended.pc
    /\ email_body' = suspended.email_body
    /\ current_history' = suspended.current_history
    /\ updated_history' = suspended.updated_history
    /\ tools_for_gemini' = suspended.tools_for_gemini
    /\ function_call' = suspended.function_call
    /\ client' = suspended.client
    /\ transport' = suspended.transport
    /\ session' = suspended.session
    /\ pending' = suspended.pending
    /\ outcome' = suspended.outcome
    /\ log' = suspended.log
    /\ UNCHANGED <<MCP_SERVER_BASE_URL, environ, environ_at_import, stale_tools_block,
                   chat_history, calls>>

CategorizeStep ==
    \/ EnterTransport
    \/ EnterSession
    \/ Initialize
    \/ ListToolsCategorize
    \/ GenerateContent
    \/ CallToolCategorize
    \/ ExitSession
    \/ ExitTransport

PairNext ==
    \/ \E body \in EmailBodies : CategorizeEmail(body)
    \/ CategorizeStep
    \/ Switch

\* one configuration of the program: MCP_SERVER_URL unset at import, the
\* caller holding a history of one exchange
PairInit ==
    /\ Init
    /\ environ = None
    /\ Len(chat_history) = 2

PairSpec == PairInit /\ [][PairNext]_vars

(***************************************************************************)
(* Observations used by the properties                                     *)
(***************************************************************************)
CategorizeDone == pc = "returned" /\ fn = "categorize_email"
CategorizeReturned == CategorizeDone /\ outcome.kind = "returned"

Did(op, ok) == \E i \in 1..Len(log) : log[i].op = op /\ log[i].ok = ok
Attempted(op) == \E i \in 1..Len(log) : log[i].op = op
Times(op) == Cardinality({i \in 1..Len(log) : log[i].op = op})

TeardownRaised ==
    \/ Did("ClientSession.exit", FALSE)
    \/ Did("http_client.exit", FALSE)
    \/ Did("stdio_client.exit", FALSE)

OpenOrHandshakeFailed ==
    \/ Did("http_client", FALSE)
    \/ Did("stdio_client", FALSE)
    \/ Did("ClientSession", FALSE)
    \/ Did("initialize", FALSE)

\* the Turns the specification describes, written out
UserTurnOf(X) ==
    [py |-> "dict",
     d |-> [role |-> [py |-> "str", s |-> "user"],
            parts |-> [py |-> "list",
                       l |-> << [py |-> "dict",
                                 d |-> [text |-> [py |-> "str",
                                                  s |-> "Categorize the following email: " \o X]]] >>]]]
NoteTurnOf(note) ==
    [py |-> "dict",
     d |-> [role |-> [py |-> "str", s |-> "model"],
            parts |-> [py |-> "list",
                       l |-> << [py |-> "dict", d |-> [text |-> [py |-> "str", s |-> note]]] >>]]]

\* the backend request of this call and its reply, the invocation and its result
BackendEvent == log[CHOOSE i \in 1..Len(log) : log[i].op = "generate_content"]
InvokeEvent == log[CHOOSE i \in 1..Len(log) : log[i].op = "call_tool"]

Malformed(response) ==
    \/ Len(response.candidates) = 0
    \/ Len(response.candidates[1]) = 0

\* the backend replied and the first part of its first candidate exists
Replied == Did("generate_content", TRUE) /\ ~Malformed(BackendEvent.res)
FirstPart == BackendEvent.res.candidates[1][1]
RepliedWithCall == Replied /\ FirstPart.function_call.py = "FunctionCall"
RepliedWithoutCall == Replied /\ FirstPart.function_call.py = "None"

\* the tool answered and the first part of its content is a text
ToolAnsweredText ==
    /\ Did("call_tool", TRUE)
    /\ "content" \in DOMAIN InvokeEvent.res
    /\ InvokeEvent.res.content.py = "list"
    /\ Len(InvokeEvent.res.content.l) > 0
    /\ InvokeEvent.res.content.l[1].py = "TextContent"
FirstText == InvokeEvent.res.content.l[1].text.s

SessionSentinel == [py |-> "str", s |-> "error_mcp_session_categorization"]
SessionFailureReturned ==
    /\ outcome.value = SessionSentinel
    /\ outcome.history = chat_history \o <<UserTurnOf(email_body), NoteTurnOf("Error in MCP session.")>>

(***************************************************************************)
(* Properties                                                              *)
(***************************************************************************)

\* C1: whenever categorize_email(X, H) returns, on any exit path, the
\* returned history has length len(H)+2: H, then one user Turn, then one
\* model Turn.
C1_HistoryGrowsByTwo ==
    CategorizeReturned =>
        /\ Len(outcome.history) = Len(chat_history) + 2
        /\ SubSeq(outcome.history, 1, Len(chat_history)) = chat_history
        /\ outcome.history[Len(chat_history) + 1].d.role.s = "user"
        /\ outcome.history[Len(chat_history) + 2].d.role.s = "model"

C1_Witness ==
    /\ CategorizeReturned
    /\ Len(chat_history) = 2
    /\ Did("initialize", FALSE)
    /\ Len(outcome.history) = 4

\* C2: categorize_email never raises to its caller, also when the history
\* passed in is one an earlier call returned.
C2_NeverRaises == CategorizeDone => outcome.kind = "returned"

\* C3: when categorize_email or filter_emails returns, the session and the
\* transport opened during the call have both been exited.
C3_ClosedOnReturn ==
    pc = "returned" => (transport # "open" /\ session # "open")

C3_Witness ==
    /\ pc = "returned"
    /\ Did("list_tools", FALSE)
    /\ transport = "closed"
    /\ session = "closed"

\* C4: if opening the transport or the session, or the handshake, fails,
\* categorize_email(X, H) returns error_mcp_session_categorization with
\* history H + user Turn + the note "Error in MCP session.", and the model
\* backend is not invoked.
C4_SessionFailureSentinel ==
    (CategorizeReturned /\ OpenOrHandshakeFailed) =>
        /\ outcome.value = [py |-> "str", s |-> "error_mcp_session_categorization"]
        /\ outcome.history = chat_history \o <<UserTurnOf(email_body), NoteTurnOf("Error in MCP session.")>>
        /\ ~Attempted("generate_content")

C4_Witness ==
    /\ CategorizeReturned
    /\ Did("ClientSession", TRUE)
    /\ Did("initialize", FALSE)
    /\ outcome.value = [py |-> "str", s |-> "error_mcp_session_categorization"]

\* C5 as stated: if the session opens, handshake and discovery succeed and
\* the backend request raises, categorize_email(X, H) returns
\* unknown_category_error_gemini_api with history H + user Turn + the note
\* "Error calling Gemini.", and no tool is invoked.
C5_BackendRaiseSentinel ==
    (CategorizeReturned /\ Did("generate_content", FALSE)) =>
        /\ outcome.value = [py |-> "str", s |-> "unknown_category_error_gemini_api"]
        /\ outcome.history = chat_history \o <<UserTurnOf(email_body), NoteTurnOf("Error calling Gemini.")>>
        /\ ~Attempted("call_tool")

\* C5 amended: the same, provided neither context raises while it is exited;
\* when one does, the call returns error_mcp_session_categorization with the
\* note "Error in MCP session." instead.  No tool is invoked either way.
C5_BackendRaiseUnlessTeardown ==
    (CategorizeReturned /\ Did("generate_content", FALSE)) =>
        /\ ~Attempted("call_tool")
        /\ IF TeardownRaised
           THEN SessionFailureReturned
           ELSE /\ outcome.value = [py |-> "str", s |-> "unknown_category_error_gemini_api"]
                /\ outcome.history = chat_history \o <<UserTurnOf(email_body), NoteTurnOf("Error calling Gemini.")>>

C5_Witness ==
    /\ CategorizeReturned
    /\ Did("generate_content", FALSE)
    /\ ~TeardownRaised
    /\ outcome.value = [py |-> "str", s |-> "unknown_category_error_gemini_api"]

\* C6: if the backend request returns a response with no candidates, or
\* whose first candidate has no parts, categorize_email returns
\* unknown_category_error_gemini_api.
C6_MalformedResponseSentinel ==
    (CategorizeReturned /\ Did("generate_content", TRUE) /\ Malformed(BackendEvent.res)) =>
        outcome.value = [py |-> "str", s |-> "unknown_category_error_gemini_api"]

\* the value the specification expects from a decodable tool text
DecodedValueOf(text) ==
    IF text = "{\"category\": \"promotions\"}"
    THEN [py |-> "dict", d |-> [category |-> [py |-> "str", s |-> "promotions"]]]
    ELSE [py |-> "str", s |-> "spam"]
Decodable(text) == text \in {"{\"category\": \"promotions\"}", "\"spam\""}

\* the tool was invoked once, with the name and the arguments of the call
InvokedAsRequested ==
    /\ Times("call_tool") = 1
    /\ InvokeEvent.arg.name = FirstPart.function_call.name
    /\ InvokeEvent.arg.arguments = [py |-> "dict", d |-> FirstPart.function_call.args.m]

\* C7 as stated: if the first part of the reply carries a function call,
\* call_tool is called with exactly that name and those arguments, and when
\* the first content part of the result is text that decodes as JSON the
\* category result is the decoded value.
C7_CallInvokedAndDecoded ==
    (CategorizeReturned /\ RepliedWithCall) =>
        /\ InvokedAsRequested
        /\ (ToolAnsweredText /\ Decodable(FirstText)) => outcome.value = DecodedValueOf(FirstText)

\* C7 amended: the invocation is as stated; the category result is the
\* decoded value provided neither context raises while it is exited, and
\* error_mcp_session_categorization when one does.
C7_CallInvokedAndDecodedUnlessTeardown ==
    (CategorizeReturned /\ RepliedWithCall) =>
        /\ InvokedAsRequested
        /\ (ToolAnsweredText /\ Decodable(FirstText)) =>
               IF TeardownRaised THEN SessionFailureReturned
               ELSE outcome.value = DecodedValueOf(FirstText)

C7_Witness ==
    /\ CategorizeReturned
    /\ RepliedWithCall
    /\ FirstPart.function_call.name = "categorize"
    /\ ToolAnsweredText
    /\ ~TeardownRaised
    /\ outcome.value = [py |-> "dict", d |-> [category |-> [py |-> "str", s |-> "promotions"]]]

\* C8 as stated: if the reply carries no function call and has non-empty
\* text T, categorize_email returns T and call_tool is never called.
C8_DirectText ==
    (CategorizeReturned /\ RepliedWithoutCall /\ BackendEvent.res.text.py = "str"
        /\ BackendEvent.res.text.s # "") =>
        /\ outcome.value = BackendEvent.res.text
        /\ ~Attempted("call_tool")

\* C8 amended: call_tool is never called; the result is T provided neither
\* context raises while it is exited, and error_mcp_session_categorization
\* when one does.
C8_DirectTextUnlessTeardown ==
    (CategorizeReturned /\ RepliedWithoutCall /\ BackendEvent.res.text.py = "str"
        /\ BackendEvent.res.text.s # "") =>
        /\ ~Attempted("call_tool")
        /\ IF TeardownRaised THEN SessionFailureReturned
           ELSE outcome.value = BackendEvent.res.text

C8_Witness ==
    /\ CategorizeReturned
    /\ RepliedWithoutCall
    /\ FirstPart.text.py = "None"
    /\ ~TeardownRaised
    /\ outcome.value = [py |-> "str", s |-> "direct_category"]

\* C9 as stated: if the model requests a tool, the invocation succeeds and
\* the text of the first content part is not valid JSON, categorize_email
\* returns error_mcp_json_decode.
C9_NonJsonSentinel ==
    (CategorizeReturned /\ RepliedWithCall /\ ToolAnsweredText /\ FirstText = "This is not JSON") =>
        outcome.value = [py |-> "str", s |-> "error_mcp_json_decode"]

\* C9 amended: the same provided neither context raises while it is exited;
\* error_mcp_session_categorization when one does.
C9_NonJsonSentinelUnlessTeardown ==
    (CategorizeReturned /\ RepliedWithCall /\ ToolAnsweredText /\ FirstText = "This is not JSON") =>
        IF TeardownRaised THEN SessionFailureReturned
        ELSE outcome.value = [py |-> "str", s |-> "error_mcp_json_decode"]

C9_Witness ==
    /\ CategorizeReturned
    /\ ToolAnsweredText
    /\ FirstText = "This is not JSON"
    /\ Len(InvokeEvent.res.content.l) = 2
    /\ ~TeardownRaised
    /\ outcome.value = [py |-> "str", s |-> "error_mcp_json_decode"]

\* C10 as stated: if the model requests tool N and invoking N raises,
\* categorize_email returns error_calling_mcp_tool_ followed by N.
C10_InvocationRaiseSentinel ==
    (CategorizeReturned /\ RepliedWithCall /\ Did("call_tool", FALSE)) =>
        outcome.value = [py |-> "str", s |-> "error_calling_mcp_tool_" \o FirstPart.function_call.name]

\* C10 amended: the same provided neither context raises while it is
\* exited; error_mcp_session_categorization when one does.
C10_InvocationRaiseUnlessTeardown ==
    (CategorizeReturned /\ RepliedWithCall /\ Did("call_tool", FALSE)) =>
        IF TeardownRaised THEN SessionFailureReturned
        ELSE outcome.value = [py |-> "str", s |-> "error_calling_mcp_tool_" \o FirstPart.function_call.name]

C10_Witness ==
    /\ CategorizeReturned
    /\ Did("call_tool", FALSE)
    /\ ~TeardownRaised
    /\ outcome.value = [py |-> "str", s |-> "error_calling_mcp_tool_failing_tool"]

\* the tool answered, and its result has no content, content None, an empty
\* content, or a first part without text
ToolAnsweredWithoutShape ==
    /\ Did("call_tool", TRUE)
    /\ \/ "content" \notin DOMAIN InvokeEvent.res
       \/ InvokeEvent.res.content.py = "None"
       \/ /\ InvokeEvent.res.content.py = "list"
          /\ \/ Len(InvokeEvent.res.content.l) = 0
             \/ "text" \notin DOMAIN InvokeEvent.res.content.l[1]

\* C11: if the invocation succeeds but the result lacks the expected content
\* shape (content absent or None, empty content, first part without text),
\* categorize_email returns error_mcp_result_structure.  Stated for the calls
\* whose contexts close without raising.
C11_ResultStructureSentinel ==
    (CategorizeReturned /\ RepliedWithCall /\ ToolAnsweredWithoutShape /\ ~TeardownRaised) =>
        outcome.value = [py |-> "str", s |-> "error_mcp_result_structure"]

\* C12 as stated: if the first part of the reply carries no function call
\* and the response has no text, categorize_email returns
\* unknown_no_function_call_or_text, no tool is invoked, and the model Turn
\* of the returned history holds that raw first part.
C12_NoCallNoText ==
    (CategorizeReturned /\ RepliedWithoutCall /\ BackendEvent.res.text \in
        {[py |-> "None"], [py |-> "str", s |-> ""]}) =>
        /\ outcome.value = [py |-> "str", s |-> "unknown_no_function_call_or_text"]
        /\ ~Attempted("call_tool")
        /\ outcome.history[Len(outcome.history)] =
               [py |-> "dict",
                d |-> [role |-> [py |-> "str", s |-> "model"],
                       parts |-> [py |-> "list", l |-> <<FirstPart>>]]]

\* C12 amended: no tool is invoked; the sentinel and the raw part are
\* returned provided neither context raises while it is exited, and
\* error_mcp_session_categorization with its note when one does.
C12_NoCallNoTextUnlessTeardown ==
    (CategorizeReturned /\ RepliedWithoutCall /\ BackendEvent.res.text \in
        {[py |-> "None"], [py |-> "str", s |-> ""]}) =>
        /\ ~Attempted("call_tool")
        /\ IF TeardownRaised THEN SessionFailureReturned
           ELSE /\ outcome.value = [py |-> "str", s |-> "unknown_no_function_call_or_text"]
                /\ outcome.history[Len(outcome.history)] =
                       [py |-> "dict",
                        d |-> [role |-> [py |-> "str", s |-> "model"],
                               parts |-> [py |-> "list", l |-> <<FirstPart>>]]]

C12_Witness ==
    /\ CategorizeReturned
    /\ RepliedWithoutCall
    /\ BackendEvent.res.text = [py |-> "str", s |-> ""]
    /\ ~TeardownRaised
    /\ outcome.value = [py |-> "str", s |-> "unknown_no_function_call_or_text"]

\* a call of either entry point is running or has just returned
InCall == fn # "none"
FilterDone == pc = "returned" /\ fn = "filter_emails"
FilterReturned == FilterDone /\ outcome.kind = "returned"

\* the value begins with the URL scheme marker
BeginsWithHttp(value) ==
    /\ value.py = "str"
    /\ Len(value.s) >= 4
    /\ SubSeq(value.s, 1, 4) = "http"

\* C13: for both entry points and every configured value V of the base URL,
\* the network transport is constructed exactly when V is present and begins
\* with http; when V is absent, empty or not URL-like the local-process
\* transport is constructed.  Exactly one transport is constructed per call.
C13_TransportByConfiguredValue ==
    InCall => client = IF BeginsWithHttp(environ_at_import) THEN "http_client" ELSE "stdio_client"

\* C14: each call selects the transport dictated by the configuration value
\* current at its own start (an unset value standing for the default URL),
\* not by a value read earlier.
C14_TransportByCurrentValue ==
    (InCall /\ client # "none") =>
        client = IF environ.py = "None" \/ BeginsWithHttp(environ)
                 THEN "http_client" ELSE "stdio_client"

\* the catalog discovery returned, and whether it advertises the capability
Catalog == log[CHOOSE i \in 1..Len(log) : log[i].op = "list_tools"].res.l
Advertised == \E i \in 1..Len(Catalog) : Catalog[i].name = "gmail_fetch_emails"

ErrorList(message) ==
    [py |-> "list", l |-> << [py |-> "dict", d |-> [error |-> [py |-> "str", s |-> message]]] >>]
FilterSessionFailureReturned ==
    outcome.value = ErrorList("MCP client session failed for filtering")

\* C15 as stated: if the session opens and discovery returns a list without
\* gmail_fetch_emails, filter_emails returns exactly
\* [{"error": "Tool gmail_fetch_emails not found"}] and invokes no tool.
C15_ToolNotFound ==
    (FilterReturned /\ Did("list_tools", TRUE) /\ ~Advertised) =>
        /\ outcome.value = ErrorList("Tool gmail_fetch_emails not found")
        /\ ~Attempted("call_tool")

\* C15 amended: no tool is invoked; the not-found marker is returned provided
\* neither context raises while it is exited, and
\* [{"error": "MCP client session failed for filtering"}] when one does.
C15_ToolNotFoundUnlessTeardown ==
    (FilterReturned /\ Did("list_tools", TRUE) /\ ~Advertised) =>
        /\ ~Attempted("call_tool")
        /\ IF TeardownRaised THEN FilterSessionFailureReturned
           ELSE outcome.value = ErrorList("Tool gmail_fetch_emails not found")

C15_Witness ==
    /\ FilterReturned
    /\ Did("list_tools", TRUE)
    /\ Len(Catalog) = 1
    /\ ~Advertised
    /\ ~TeardownRaised
    /\ outcome.value = ErrorList("Tool gmail_fetch_emails not found")

\* C16: if opening the transport or the session, or the handshake, fails
\* inside filter_emails, it returns exactly
\* [{"error": "MCP client session failed for filtering"}] and invokes no tool.
C16_FilterSessionFailure ==
    (FilterReturned /\ OpenOrHandshakeFailed) =>
        /\ FilterSessionFailureReturned
        /\ ~Attempted("call_tool")

C16_Witness ==
    /\ FilterReturned
    /\ Did("ClientSession", FALSE)
    /\ transport = "closed"
    /\ FilterSessionFailureReturned

\* C17 as stated: if gmail_fetch_emails is advertised and invoking it
\* raises, filter_emails returns exactly
\* [{"error": "Failed to call gmail_fetch_emails"}].
C17_InvocationFailure ==
    (FilterReturned /\ Did("call_tool", FALSE)) =>
        outcome.value = ErrorList("Failed to call gmail_fetch_emails")

\* C17 amended: the same provided neither context raises while it is exited;
\* [{"error": "MCP client session failed for filtering"}] when one does.
C17_InvocationFailureUnlessTeardown ==
    (FilterReturned /\ Did("call_tool", FALSE)) =>
        IF TeardownRaised THEN FilterSessionFailureReturned
        ELSE outcome.value = ErrorList("Failed to call gmail_fetch_emails")

C17_Witness ==
    /\ FilterReturned
    /\ Did("list_tools", TRUE)
    /\ Advertised
    /\ Did("call_tool", FALSE)
    /\ ~TeardownRaised
    /\ outcome.value = ErrorList("Failed to call gmail_fetch_emails")

\* C18: filter_emails never raises and always returns a list, whatever the
\* outcome of open, handshake, discovery and invocation and whatever the
\* shape of the result's content.
C18_FilterReturnsList ==
    FilterDone => (outcome.kind = "returned" /\ outcome.value.py = "list")

C18_Witness ==
    /\ FilterReturned
    /\ Did("call_tool", TRUE)
    /\ InvokeEvent.res.content.py = "None"
    /\ ~TeardownRaised
    /\ outcome.value = [py |-> "list", l |-> << >>]

\* C19: when gmail_fetch_emails is advertised it is invoked exactly once with
\* {query: "unread", max_results: 10}, and if the invocation returns a single
\* text part holding the JSON encoding of a list of records L, filter_emails
\* returns L itself.  Stated for the calls whose contexts close without
\* raising.
C19_ReturnsDecodedList ==
    (FilterReturned /\ Did("call_tool", TRUE) /\ ~TeardownRaised
        /\ InvokeEvent.res.content = [py |-> "list",
               l |-> << [py |-> "TextContent", text |-> [py |-> "str", s |-> "[{\"id\": \"email_1\"}]"]] >>]) =>
        /\ Times("call_tool") = 1
        /\ InvokeEvent.arg.name = "gmail_fetch_emails"
        /\ InvokeEvent.arg.arguments =
               [py |-> "dict", d |-> [query |-> [py |-> "str", s |-> "unread"],
                                      max_results |-> [py |-> "int", n |-> 10]]]
        /\ outcome.value =
               [py |-> "list", l |-> << [py |-> "dict", d |-> [id |-> [py |-> "str", s |-> "email_1"]]] >>]

\* C20: categorize_email never mutates the history H passed in: throughout
\* the call and after it, on every exit path, the caller's H is what it was
\* at entry, and a returned history is a new sequence that starts with H
\* followed by the user Turn whose text is the prefix followed by X.
C20_HistoryNotMutated ==
    (fn = "categorize_email") =>
        /\ chat_history = current_history
        /\ CategorizeReturned =>
              /\ Len(outcome.history) > Len(chat_history)
              /\ SubSeq(outcome.history, 1, Len(chat_history)) = chat_history
              /\ outcome.history[Len(chat_history) + 1] = UserTurnOf(email_body)

C20_Witness ==
    /\ CategorizeReturned
    /\ Len(chat_history) = 2
    /\ email_body = "hi bob"
    /\ Did("generate_content", FALSE)
    /\ Len(outcome.history) = 4

\* C22: the session-open/handshake failure path is the only path of
\* categorize_email on which the model backend is never invoked: in every
\* call in which the session opens and the handshake succeeds, the backend
\* request is made before the call returns.
C22_BackendInvokedAfterHandshake ==
    (CategorizeReturned /\ Did("initialize", TRUE)) => Attempted("generate_content")

\* the remote operations the session and the backend perform, in the order
\* of the source
RemoteOps == {"initialize", "list_tools", "generate_content", "call_tool"}
Rank(op) ==
    CASE op = "initialize" -> 1
      [] op = "list_tools" -> 2
      [] op = "generate_content" -> 3
      [] op = "call_tool" -> 4

\* C23: within one call the remote operations occur only in the order
\* handshake, discovery, backend request, invocation, each at most once;
\* discovery, the request and the invocation occur only after the handshake
\* of that call succeeded; the invocation occurs only while the session of
\* that call is open, never after its teardown.  filter_emails makes no
\* backend request and keeps the order handshake, discovery, invocation.
C23_OperationOrder ==
    /\ \A i, j \in 1..Len(log) :
          (i < j /\ log[i].op \in RemoteOps /\ log[j].op \in RemoteOps) =>
              Rank(log[i].op) < Rank(log[j].op)
    /\ \A j \in 1..Len(log) :
          log[j].op \in {"list_tools", "generate_content", "call_tool"} =>
              \E i \in 1..(j - 1) : log[i].op = "initialize" /\ log[i].ok
    /\ \A j \in 1..Len(log) :
          log[j].op = "call_tool" =>
              /\ \E i \in 1..(j - 1) : log[i].op = "ClientSession" /\ log[i].ok
              /\ \A i \in 1..(j - 1) : log[i].op # "ClientSession.exit"
    /\ pc = "call_tool" => session = "open"
    /\ fn = "filter_emails" => ~Attempted("generate_content")

C23_Witness ==
    /\ CategorizeReturned
    /\ Did("initialize", TRUE)
    /\ Did("list_tools", TRUE)
    /\ Did("generate_content", TRUE)
    /\ Did("call_tool", FALSE)
    /\ session = "closed"

\* the model Turn holding the raw first part of the reply
RawTurn ==
    [py |-> "dict",
     d |-> [role |-> [py |-> "str", s |-> "model"],
            parts |-> [py |-> "list", l |-> <<FirstPart>>]]]

\* C24 as stated: whenever the first part of the reply carries a function
\* call, the model Turn of the returned history is that exact raw part, on
\* every outcome of the invocation, and never a synthetic error note.
C24_RawCallPartKept ==
    (CategorizeReturned /\ RepliedWithCall) =>
        /\ Len(outcome.history) = Len(chat_history) + 2
        /\ outcome.history[Len(outcome.history)] = RawTurn

\* C24 amended: the same provided neither context raises while it is exited;
\* when one does the model Turn is the note "Error in MCP session.".
C24_RawCallPartKeptUnlessTeardown ==
    (CategorizeReturned /\ RepliedWithCall) =>
        IF TeardownRaised THEN SessionFailureReturned
        ELSE /\ Len(outcome.history) = Len(chat_history) + 2
             /\ outcome.history[Len(outcome.history)] = RawTurn

C24_Witness ==
    /\ CategorizeReturned
    /\ RepliedWithCall
    /\ Did("call_tool", TRUE)
    /\ ~TeardownRaised
    /\ outcome.value = [py |-> "str", s |-> "error_mcp_result_structure"]
    /\ outcome.history[Len(outcome.history)].d.parts.l[1].py = "Part"

\* even length, roles user, model, user, model, ...
Alternating(h) ==
    /\ Len(h) % 2 = 0
    /\ \A i \in 1..Len(h) : h[i].d.role.s = IF i % 2 = 1 THEN "user" ELSE "model"

\* C25: when each call receives the history the previous one returned, the
\* history held between calls always has even length and alternating roles
\* user, model, ..., and every call that returns, with a real result or a
\* sentinel, makes it longer by exactly two (length 2n after n returns from
\* the empty history).
C25_ThreadedHistoryAlternates ==
    /\ [](Alternating(chat_history))
    /\ [][(pc = "returned" /\ pc' = "idle" /\ fn = "categorize_email" /\ outcome.kind = "returned")
              => Len(chat_history') = Len(chat_history) + 2]_vars

C25_Witness ==
    /\ pc = "idle"
    /\ calls = 2
    /\ Len(chat_history) = 4
    /\ chat_history[1] = UserTurnOf("buy now")
    /\ chat_history[2] = NoteTurnOf("Error in MCP session.")
    /\ chat_history[4].d.parts.l[1].py = "Part"

\* the record the specification expects for one content part
RecordOf(part) ==
    IF part.py = "TextContent" /\ part.text.py = "str" /\ part.text.s = "{\"category\": \"promotions\"}"
    THEN [py |-> "dict", d |-> [category |-> [py |-> "str", s |-> "promotions"]]]
    ELSE IF part.py = "TextContent" /\ part.text.py = "str" /\ part.text.s = "[{\"id\": \"email_1\"}]"
    THEN [py |-> "list", l |-> << [py |-> "dict", d |-> [id |-> [py |-> "str", s |-> "email_1"]]] >>]
    ELSE IF part.py = "TextContent"
    THEN [py |-> "dict", d |-> [raw_text |-> part.text, error |-> [py |-> "str", s |-> "not_json"]]]
    ELSE [py |-> "dict", d |-> [unknown_part |-> [py |-> "str", s |-> "<" \o part.py \o ">"]]]

\* C26: on a successful invocation in filter_emails the returned list has
\* exactly one record per content part of the result, in the order of the
\* parts (decoded value, raw-text record tagged not_json, or unknown-part
\* record), and a result without content parts yields the empty list.
\* Stated for the calls whose contexts close without raising and for
\* results made of text parts and image parts.
C26_OneRecordPerPart ==
    (FilterReturned /\ Did("call_tool", TRUE) /\ ~TeardownRaised
        /\ InvokeEvent.res.content.py = "list"
        /\ \A i \in 1..Len(InvokeEvent.res.content.l) :
              InvokeEvent.res.content.l[i].py \in {"TextContent", "ImageContent"}) =>
        /\ Len(outcome.value.l) = Len(InvokeEvent.res.content.l)
        /\ \A i \in 1..Len(InvokeEvent.res.content.l) :
              outcome.value.l[i] = RecordOf(InvokeEvent.res.content.l[i])

\* every operation a call performs, context entries and exits included
AllOps ==
    RemoteOps \cup {"http_client", "stdio_client", "ClientSession", "ClientSession.exit",
                    "http_client.exit", "stdio_client.exit"}

\* C29: if every remote operation eventually responds, every call of
\* categorize_email and of filter_emails eventually returns to its caller
\* with its session and transport closed, having attempted each operation at
\* most once.
C29_EveryCallReturns ==
    /\ [](\A op \in AllOps : Times(op) <= 1)
    /\ (pc \notin {"idle", "returned"}) ~>
           (pc = "returned" /\ session # "open" /\ transport # "open")

C29_Witness ==
    /\ FilterReturned
    /\ Did("list_tools", FALSE)
    /\ Did("ClientSession.exit", TRUE)
    /\ Did("stdio_client.exit", TRUE)
    /\ session = "closed"
    /\ transport = "closed"

\* both coroutines have returned to their caller
BothDone == pc = "returned" /\ suspended.pc = "returned"

\* a backend and a tool server that answer identical requests identically:
\* the same operation with the same argument had the same result in both
\* calls
Deterministic(log1, log2) ==
    \A i \in 1..Len(log1), j \in 1..Len(log2) :
        (log1[i].op = log2[j].op /\ log1[i].arg = log2[j].arg) =>
            (log1[i].ok = log2[j].ok /\ log1[i].res = log2[j].res)

\* C21: two calls of categorize_email with identical email text and the same
\* starting history, against a backend and a tool server that answer
\* identical requests identically, produce identical category results and
\* identical returned histories, whether the second call starts after the
\* first has returned or before.
C21_Idempotent ==
    (BothDone /\ email_body = suspended.email_body /\ Deterministic(log, suspended.log)) =>
        outcome = suspended.outcome

C21_Witness ==
    /\ BothDone
    /\ email_body = suspended.email_body
    /\ Deterministic(log, suspended.log)
    /\ Len(log) = 8
    /\ outcome.value = [py |-> "dict", d |-> [category |-> [py |-> "str", s |-> "promotions"]]]
    /\ suspended.outcome.value = [py |-> "dict", d |-> [category |-> [py |-> "str", s |-> "promotions"]]]

\* what categorize_email(body, history) delivers when it runs alone and its
\* remote peers answer as recorded in responses (lines 47-135)
AloneOutcome(body, history, responses) ==
    LET failed(op) == \E i \in 1..Len(responses) : responses[i].op = op /\ ~responses[i].ok
        event(op) == responses[CHOOSE i \in 1..Len(responses) : responses[i].op = op]
        note == Returned(Str("error_mcp_session_categorization"),
                         history \o <<UserPromptPart(body), ModelTurn(TextPart("Error in MCP session."))>>)
    IN
    IF \E i \in 1..Len(responses) :
           ~responses[i].ok /\ responses[i].op \notin {"generate_content", "call_tool"}
    THEN note
    ELSE IF \A i \in 1..Len(responses) : responses[i].op # "generate_content"
    THEN note
    ELSE IF failed("generate_content")
    THEN Returned(GeminiFailure(history, body).value, GeminiFailure(history, body).history)
    ELSE IF Len(event("generate_content").res.candidates) = 0
            \/ Len(event("generate_content").res.candidates[1]) = 0
    THEN note
    ELSE LET response == event("generate_content").res
             part == response.candidates[1][1]
             turns == history \o <<UserPromptPart(body), ModelTurn(part)>>
         IN
         IF Truthy(part.function_call)
         THEN IF failed("call_tool")
              THEN Returned(ToolFailure(part.function_call), turns)
              ELSE Returned(DecodeToolResult(event("call_tool").res, part.function_call), turns)
         ELSE Returned(ReplyWithoutCall(response, turns).value, turns)

\* the state of a coroutine's two contexts as its own operations left them
OwnContexts(f) ==
    /\ f.session = IF \E i \in 1..Len(f.log) : f.log[i].op = "ClientSession.exit" THEN "closed"
                   ELSE IF \E i \in 1..Len(f.log) : f.log[i].op = "ClientSession" /\ f.log[i].ok
                   THEN "open" ELSE "unopened"
    /\ f.transport = IF \E i \in 1..Len(f.log) : f.log[i].op = f.client \o ".exit" THEN "closed"
                     ELSE IF \E i \in 1..Len(f.log) : f.log[i].op = f.client /\ f.log[i].ok
                     THEN "open" ELSE "unopened"

\* coroutine f is not affected by coroutine g
Independent(f, g) ==
    /\ f.fn = "categorize_email" => OwnContexts(f)
    /\ (f.pc = "returned" /\ f.outcome.kind = "returned") =>
          /\ f.outcome = AloneOutcome(f.email_body, chat_history, f.log)
          /\ (g.fn = "categorize_email" /\ g.email_body # f.email_body) =>
                \A i \in 1..Len(f.outcome.history) :
                    f.outcome.history[i] # UserTurnOf(g.email_body)

\* C27: two categorize_email calls interleaved in any way at their awaits do
\* not interfere: each has its own transport and session, whose state changes
\* only by its own operations; each returns the result and the history it
\* would return alone with the same remote responses; neither returned
\* history holds a Turn of the other call.
C27_ConcurrentCallsIndependent ==
    /\ Independent(Frame, suspended)
    /\ Independent(suspended, Frame)

C27_Witness ==
    /\ pc = "returned"
    /\ session = "closed"
    /\ outcome.value = [py |-> "dict", d |-> [category |-> [py |-> "str", s |-> "promotions"]]]
    /\ suspended.pc = "call_tool"
    /\ suspended.session = "open"
    /\ suspended.email_body # email_body
    /\ Len(log) = 8

\* the reply of the backend in a call, and its first part
ReplyIn(responses) ==
    responses[CHOOSE i \in 1..Len(responses) : responses[i].op = "generate_content"].res
RepliedIn(responses) ==
    /\ \E i \in 1..Len(responses) : responses[i].op = "generate_content" /\ responses[i].ok
    /\ Len(ReplyIn(responses).candidates) > 0
    /\ Len(ReplyIn(responses).candidates[1]) > 0
InvocationsIn(responses) ==
    {responses[i] : i \in {k \in 1..Len(responses) : responses[k].op = "call_tool"}}

\* every peer but the backend answers identical requests identically
DeterministicButReply(log1, log2) ==
    \A i \in 1..Len(log1), j \in 1..Len(log2) :
        (log1[i].op = log2[j].op /\ log1[i].arg = log2[j].arg /\ log1[i].op # "generate_content") =>
            (log1[i].ok = log2[j].ok /\ log1[i].res = log2[j].res)

\* C28: the outcome of categorize_email depends only on the first part of the
\* first candidate of the reply: two calls with the same email text and
\* history whose replies agree on that part, and may differ in further
\* candidates, further parts and the text they carry, produce the same
\* category result, the same returned history and the same invocations.
C28_OnlyFirstPartDecides ==
    (/\ BothDone
     /\ email_body = suspended.email_body
     /\ DeterministicButReply(log, suspended.log)
     /\ RepliedIn(log)
     /\ RepliedIn(suspended.log)
     /\ ReplyIn(log).candidates[1][1] = ReplyIn(suspended.log).candidates[1][1]) =>
        /\ outcome = suspended.outcome
        /\ InvocationsIn(log) = InvocationsIn(suspended.log)

====
